---- MODULE Spec2Model ----
(***************************************************************************)
(* The execution tracer of lib/transaction/tracer.js: the three proxy      *)
(* strategies (transactionProxy, segmentProxy, callbackProxy) and the      *)
(* wrapper functions they return, run on one JavaScript thread.            *)
(*                                                                         *)
(* A step of the model is one of the places where control changes hands:   *)
(* a proxy method is called, a wrapper (or a bare handler) is invoked and  *)
(* runs up to its handler.apply, a handler returns and the wrapper runs    *)
(* its epilogue, or a handler throws and the wrapper is unwound.  What a   *)
(* handler does while it runs (wrap, invoke, return, throw) is the         *)
(* nondeterminism of Next.                                                 *)
(*                                                                         *)
(* State (lib/transaction/tracer/state.js), Context (lib/context.js) and   *)
(* the agent's transaction factory are collaborators whose code is not     *)
(* part of the sources at hand; they follow their written specification.   *)
(***************************************************************************)
EXTENDS Integers, Sequences, FiniteSets, TLC

\* ------------------------------------------------------------- bounds
MaxStates   == 4    \* State objects constructed
MaxClosures == 2    \* closures callbackProxy has returned
MaxDepth    == 2    \* depth of the JavaScript call stack

\* ------------------------------------------------------------- inputs
OriginHandlers   == {"h1"}         \* the functions given to transactionProxy
JoinHandlers     == {"h2"}         \* the functions given to segmentProxy
DeferredHandlers == {"h3"}         \* the functions given to callbackProxy
Calls    == {[this |-> "r1", arguments |-> "a1"],
             [this |-> "r2", arguments |-> "a2"]}   \* receiver and arguments of a call
Values   == {"v1", "v2"}     \* what a handler returns
Errors   == {"e1", "e2"}     \* what a handler throws
Missing  == "undefined"      \* an argument that was not given (falsy)
Agents   == {Missing, "agent"}      \* what `new Tracer` gets as agent
SharedContexts == {Missing, "context"}   \* what `new Tracer` gets as context

VARIABLES
  tracer,      \* the Tracer the program constructed
  created,     \* number of transactions agent.createTransaction has made
  constructed, \* number of State objects constructed
  context,     \* the shared Context
  closures,    \* the wrapCallbackInvocation closures callbackProxy has returned
  callStack,   \* the handler invocations in progress, innermost last
  io           \* what the latest step handed over: the receiver and arguments
               \* a handler was applied to, or what a call gave its caller

vars == <<tracer, created, constructed, context, closures, callStack, io>>

\* ------------------------------------------------- collaborators (spec)
\* transaction.getTrace().root: the root segment of a transaction
Root(transaction) == [rootOf |-> transaction]

\* new State(transaction, segment, handler): an object with these three
\* fields; id tells one object from another with the same fields
NewState(transaction, segment, handler) ==
  [id |-> constructed + 1, transaction |-> transaction, segment |-> segment,
   handler |-> handler]

\* `!state`: no State (undefined)
None == [id |-> 0, transaction |-> 0, segment |-> Root(0), handler |-> ""]

\* agent.createTransaction(): a transaction no one has seen before
CreateTransaction == created + 1

\* The two ways Context may keep what to restore: an explicit stack, or a
\* back-reference captured at enter time (kept per State, in the order the
\* States were entered).  They agree while every exit is the LIFO counterpart
\* of its enter; for any other exit the build decides.
ContextImpls == {"stack", "link"}

Top(stack) == IF stack = <<>> THEN None ELSE stack[Len(stack)]

Pop(stack) == SubSeq(stack, 1, Len(stack) - 1)

\* Context.enter(state): state becomes the current state
Enter(ctx, state) ==
  IF ctx.impl = "stack"
    THEN [ctx EXCEPT !.state = state, !.stack = Append(ctx.stack, state)]
    ELSE [ctx EXCEPT !.state = state,
                     !.prev = [i \in 1..state.id |->
                                 IF i = state.id THEN ctx.state
                                 ELSE IF i <= Len(ctx.prev) THEN ctx.prev[i] ELSE None]]

\* Context.exit(state): restore what was current before the enter
Exit(ctx, state) ==
  IF ctx.impl = "stack"
    THEN [ctx EXCEPT !.state = Top(Pop(ctx.stack)), !.stack = Pop(ctx.stack)]
    ELSE [ctx EXCEPT !.state = ctx.prev[state.id]]

\* what a call gives its caller: a value or function returned, an error thrown
Outcome(given) == [given |-> given]

\* ------------------------------------------------------- construction
\* no Tracer: nothing has been constructed yet
NoTracer == [numTransactions |-> 0, agent |-> Missing, context |-> Missing]

\* lines 30-35 with the checks of lines 30-31 left out
TracerUnchecked(agent, ctx) ==
  [numTransactions |-> 0, agent |-> agent, context |-> ctx]

\* function Tracer(agent, context): the error it throws, or the object whose
\* three fields it has set
Tracer(agent, ctx) ==
  IF agent = Missing THEN [error |-> "Must be initialized with an agent."]
  ELSE IF ctx = Missing THEN [error |-> "Must include shared context."]
  ELSE [numTransactions |-> 0, agent |-> agent, context |-> ctx]

\* new Tracer(agent, context): the caller gets the error or the new Tracer
Construct(agent, ctx) ==
  LET result == Tracer(agent, ctx)
  IN /\ IF "error" \in DOMAIN result
          THEN /\ io' = Outcome(result.error)
               /\ UNCHANGED tracer
          ELSE /\ io' = Outcome("Tracer")
               /\ tracer' = result
     /\ UNCHANGED <<created, constructed, context, closures, callStack>>

\* ---------------------------------------------------------------- Init
\* the program has constructed its Tracer over the agent and an empty Context
Init ==
  /\ tracer = Tracer("agent", "context")
  /\ created = 0
  /\ constructed = 0
  /\ \E impl \in ContextImpls :
       context = [impl |-> impl, state |-> None, stack |-> <<>>, prev |-> <<>>]
  /\ closures = <<>>
  /\ callStack = <<>>
  /\ io = Outcome("")

\* ------------------------------------------------------ proxy methods
\* The functions transactionProxy and segmentProxy return close over self
\* and handler alone and assign neither, so such a wrapper is known by its
\* handler and its holder may invoke it whenever it likes.

\* a transactionProxy that starts the transaction when it wraps
TransactionProxyEager(handler) ==
  /\ tracer # NoTracer
  /\ constructed < MaxStates
  /\ created' = CreateTransaction
  /\ constructed' = constructed + 1
  /\ context' = Enter(context, NewState(CreateTransaction, Root(CreateTransaction), handler))
  /\ io' = Outcome("wrapTransactionInvocation")
  /\ UNCHANGED <<tracer, closures, callStack>>

\* Tracer.prototype.transactionProxy(handler)
TransactionProxy(handler) ==
  /\ tracer # NoTracer
  /\ io' = Outcome("wrapTransactionInvocation")
  /\ UNCHANGED <<tracer, created, constructed, context, closures, callStack>>

\* Tracer.prototype.segmentProxy(handler)
SegmentProxy(handler) ==
  /\ tracer # NoTracer
  /\ io' = Outcome("wrapSegmentInvocation")
  /\ UNCHANGED <<tracer, created, constructed, context, closures, callStack>>

\* lines 98-99: whether callbackProxy returns the handler as it is
CallbackPassesNever(state) == FALSE

CallbackPasses(state) == state = None

\* Tracer.prototype.callbackProxy(handler): the handler itself, or a new
\* closure over state, handler and self; origin remembers the State that was
\* current at wrap time (history)
CallbackProxy(handler) ==
  /\ tracer # NoTracer
  /\ LET state == context.state
     IN IF CallbackPasses(state)
          THEN /\ io' = Outcome(handler)
               /\ UNCHANGED <<tracer, created, constructed, context, closures, callStack>>
          ELSE /\ Len(closures) < MaxClosures
               /\ closures' = Append(closures,
                    [handler |-> handler, state |-> state, origin |-> state])
               /\ io' = Outcome("wrapCallbackInvocation")
               /\ UNCHANGED <<tracer, created, constructed, context, callStack>>

\* ------------------------------------------------- wrapper invocations
\* handler.apply(this, arguments): what the handler receives
ApplyUnbound(this, arguments) == [this |-> "global", arguments |-> arguments]

Apply(this, arguments) == [this |-> this, arguments |-> arguments]

\* One handler invocation in progress.  state is the wrapper's local `state`
\* (None where it has none); entered is the State this invocation passed to
\* enter and before the State that was current when it began (history).
Frame(kind, handler, closure, state, entered) ==
  [kind |-> kind, handler |-> handler, closure |-> closure, state |-> state, entered |-> entered,
   before |-> context.state]

\* line 51: new State(transaction, transaction.getTrace().root, handler)
TransactionStateJoining(transaction, handler) ==
  IF context.state = None
    THEN NewState(transaction, Root(transaction), handler)
    ELSE NewState(context.state.transaction, context.state.segment, handler)

TransactionState(transaction, handler) ==
  NewState(transaction, Root(transaction), handler)

\* wrapTransactionInvocation, up to and including handler.apply
WrapTransactionInvocation(handler, this, arguments) ==
  /\ tracer # NoTracer
  /\ Len(callStack) < MaxDepth
  /\ constructed < MaxStates
  /\ LET transaction == CreateTransaction
         state       == TransactionState(transaction, handler)
     IN /\ created' = transaction
        /\ constructed' = constructed + 1
        /\ context' = Enter(context, state)
        /\ callStack' = Append(callStack,
             Frame("transaction", handler, 0, state, state))
        /\ io' = Apply(this, arguments)
  /\ UNCHANGED <<tracer, closures>>

\* line 76, were the current State given the new handler instead of copied
SegmentStateInPlace(state, handler) == [state EXCEPT !.handler = handler]

\* lines 76 and 103, were the new State given the handler of the old one
SegmentStateKeepsHandler(state, handler) ==
  NewState(state.transaction, state.segment, state.handler)

\* line 76: new State(state.transaction, state.segment, handler), and the
\* same expression on line 103

SegmentState(state, handler) ==
  NewState(state.transaction, state.segment, handler)

\* lines 73-74: whether wrapSegmentInvocation calls the handler straight through
SegmentPassesNever(state) == FALSE

SegmentPasses(state) == state = None

\* a wrapSegmentInvocation that starts a transaction of its own
WrapSegmentInvocationCreating(handler, this, arguments) ==
  WrapTransactionInvocation(handler, this, arguments)

\* wrapSegmentInvocation, up to and including handler.apply
WrapSegmentInvocation(handler, this, arguments) ==
  /\ tracer # NoTracer
  /\ Len(callStack) < MaxDepth
  /\ IF SegmentPasses(context.state)
       THEN /\ callStack' = Append(callStack,
                 Frame("segment", handler, 0, None, None))
            /\ UNCHANGED <<constructed, context>>
       ELSE /\ constructed < MaxStates
            /\ LET state == SegmentState(context.state, handler)
               IN /\ constructed' = constructed + 1
                  /\ context' = Enter(context, state)
                  /\ callStack' = Append(callStack,
                       Frame("segment", handler, 0, state, state))
  /\ io' = Apply(this, arguments)
  /\ UNCHANGED <<tracer, created, closures>>

\* line 103: the State whose transaction and segment the closure installs
CallbackSourceCurrent(c) ==
  IF context.state = None THEN closures[c].state ELSE context.state

CallbackSource(c) == closures[c].state

\* line 103, the assignment: were `state` one variable for all closures
AssignStateShared(c, state) ==
  [d \in 1..Len(closures) |-> [closures[d] EXCEPT !.state = state]]

\* line 103, the assignment: `state` is the variable of closure c alone
AssignState(c, state) == [closures EXCEPT ![c].state = state]

\* wrapCallbackInvocation, up to and including handler.apply; the new State
\* is assigned to the closure's `state`, which all its invocations share
WrapCallbackInvocation(c, this, arguments) ==
  /\ c \in 1..Len(closures)
  /\ Len(callStack) < MaxDepth
  /\ constructed < MaxStates
  /\ LET handler == closures[c].handler
         state   == SegmentState(CallbackSource(c), handler)
     IN /\ constructed' = constructed + 1
        /\ closures' = AssignState(c, state)
        /\ context' = Enter(context, state)
        /\ callStack' = Append(callStack,
             Frame("callback", handler, c, None, state))
        /\ io' = Apply(this, arguments)
  /\ UNCHANGED <<tracer, created>>

\* a handler is called as it is: by whoever got it back from callbackProxy,
\* or by anyone else who holds it
CallHandler(handler, this, arguments) ==
  /\ Len(callStack) < MaxDepth
  /\ callStack' = Append(callStack,
       Frame("handler", handler, 0, None, None))
  /\ io' = [this |-> this, arguments |-> arguments]
  /\ UNCHANGED <<tracer, created, constructed, context, closures>>

\* --------------------------------------------------- returns and throws
TopFrame == callStack[Len(callStack)]

Returning(kind) == callStack # <<>> /\ TopFrame.kind = kind

\* line 54: self.context.exit(state), state the local of this invocation
TransactionExitSkipped(f) == context

TransactionExit(f) == Exit(context, f.state)

\* wrapTransactionInvocation once handler.apply has returned value
ReturnTransaction(value) ==
  /\ Returning("transaction")
  /\ context' = TransactionExit(TopFrame)
  /\ callStack' = Pop(callStack)
  /\ io' = Outcome(value)
  /\ UNCHANGED <<tracer, created, constructed, closures>>

\* line 79: self.context.exit(state), state the local of this invocation
SegmentExit(f) == Exit(context, f.state)

\* wrapSegmentInvocation once handler.apply has returned value: line 74
\* returns it at once when no State was current, lines 79-81 otherwise
ReturnSegment(value) ==
  /\ Returning("segment")
  /\ context' = IF TopFrame.state = None THEN context ELSE SegmentExit(TopFrame)
  /\ callStack' = Pop(callStack)
  /\ io' = Outcome(value)
  /\ UNCHANGED <<tracer, created, constructed, closures>>

\* line 106: self.context.exit(state), state the closure's variable as the
\* latest invocation of this closure left it
CallbackExitArg(f) == closures[f.closure].state

\* wrapCallbackInvocation once handler.apply has returned value
ReturnCallback(value) ==
  /\ Returning("callback")
  /\ context' = Exit(context, CallbackExitArg(TopFrame))
  /\ callStack' = Pop(callStack)
  /\ io' = Outcome(value)
  /\ UNCHANGED <<tracer, created, constructed, closures>>

\* a handler that was called as it is returns value
ReturnHandler(value) ==
  /\ Returning("handler")
  /\ callStack' = Pop(callStack)
  /\ io' = Outcome(value)
  /\ UNCHANGED <<tracer, created, constructed, context, closures>>

\* a wrapper that catches what handler.apply throws and returns undefined
HandlerThrowsSwallowed(error) ==
  /\ callStack # <<>>
  /\ callStack' = SubSeq(callStack, 1, Len(callStack) - 1)
  /\ io' = Outcome(Missing)
  /\ UNCHANGED <<tracer, created, constructed, context, closures>>

\* handler.apply throws error: no wrapper has a try/finally, so the
\* invocation is unwound without its exit and the error reaches the caller,
\* the enclosing handler or the event loop
HandlerThrows(error) ==
  /\ callStack # <<>>
  /\ callStack' = Pop(callStack)
  /\ io' = Outcome(error)
  /\ UNCHANGED <<tracer, created, constructed, context, closures>>

\* -------------------------------------------------------- specification
WrapOriginJoin ==
  \/ \E handler \in OriginHandlers : TransactionProxy(handler)
  \/ \E handler \in JoinHandlers : SegmentProxy(handler)

WrapDeferred == \E handler \in DeferredHandlers : CallbackProxy(handler)

InvokeOriginJoin ==
  \/ \E handler \in OriginHandlers, call \in Calls :
       WrapTransactionInvocation(handler, call.this, call.arguments)
  \/ \E handler \in JoinHandlers, call \in Calls :
       WrapSegmentInvocation(handler, call.this, call.arguments)

InvokeDeferred ==
  \/ \E c \in 1..MaxClosures, call \in Calls :
       WrapCallbackInvocation(c, call.this, call.arguments)
  \/ \E handler \in DeferredHandlers, call \in Calls :
       CallHandler(handler, call.this, call.arguments)

ReturnOriginJoin ==
  \/ \E value \in Values : ReturnTransaction(value)
  \/ \E value \in Values : ReturnSegment(value)

ReturnDeferred ==
  \/ \E value \in Values : ReturnCallback(value)
  \/ \E value \in Values : ReturnHandler(value)

Throw == \E error \in Errors : HandlerThrows(error)

Next ==
  \/ WrapOriginJoin
  \/ WrapDeferred
  \/ InvokeOriginJoin
  \/ InvokeDeferred
  \/ ReturnOriginJoin
  \/ ReturnDeferred
  \/ Throw

Spec == Init /\ [][Next]_vars

\* Only transactionProxy and segmentProxy wrappers are made and invoked, and
\* every handler returns normally
NextOriginJoin ==
  \/ WrapOriginJoin
  \/ InvokeOriginJoin
  \/ ReturnOriginJoin

SpecOriginJoin == Init /\ [][NextOriginJoin]_vars

\* Wrappers of all three strategies, and every handler returns normally
NextReturning ==
  \/ WrapOriginJoin
  \/ WrapDeferred
  \/ InvokeOriginJoin
  \/ InvokeDeferred
  \/ ReturnOriginJoin
  \/ ReturnDeferred

SpecReturning == Init /\ [][NextReturning]_vars

\* The program from before its Tracer exists: `new Tracer` is called with
\* whatever agent and context, at the start and at any later time
InitConstruct ==
  /\ tracer = NoTracer
  /\ created = 0
  /\ constructed = 0
  /\ \E impl \in ContextImpls :
       context = [impl |-> impl, state |-> None, stack |-> <<>>, prev |-> <<>>]
  /\ closures = <<>>
  /\ callStack = <<>>
  /\ io = Outcome("")

NewTracer == \E agent \in Agents, ctx \in SharedContexts : Construct(agent, ctx)

NextConstruct ==
  \/ NewTracer
  \/ Next

SpecConstruct == InitConstruct /\ [][NextConstruct]_vars

\* ------------------------------------------------------------- claims
\* the latest step applied a handler, which has not yet done anything
JustApplied == callStack # <<>> /\ "this" \in DOMAIN io

\* the invocations in progress that entered a State
EnteredFrames == {i \in 1..Len(callStack) : callStack[i].entered # None}

\* C1: after any nesting of transactionProxy and segmentProxy wrapper
\* invocations whose handlers all return normally, started from an empty
\* Context, no State is current once the outermost wrapper has returned.
C1_NoLeakOutsideWrappers == callStack = <<>> => context.state = None

C1_Witness ==
  /\ callStack = <<>>
  /\ io \in {[given |-> v] : v \in Values}
  /\ created >= 1
  /\ constructed > created
  /\ context.state = None

\* C2 (as claimed): once a handler's throw has left a wrapper that had
\* entered a State, the current State is the one that was current before that
\* wrapper's enter.
C2_ExitRunsOnThrow ==
  [][\A error \in Errors :
       (HandlerThrows(error) /\ TopFrame.entered # None)
         => context'.state = TopFrame.before]_vars

\* C3: whatever is current when a callbackProxy closure is invoked, its
\* handler starts under a current State that has the transaction and segment
\* that were current when callbackProxy was called, and that handler.
C3_CallbackSeesCapturedState ==
  (JustApplied /\ TopFrame.kind = "callback") =>
    LET closure == closures[TopFrame.closure]
    IN /\ context.state # None
       /\ context.state.transaction = closure.origin.transaction
       /\ context.state.segment = closure.origin.segment
       /\ context.state.handler = closure.handler

C3_Witness ==
  /\ JustApplied
  /\ TopFrame.kind = "callback"
  /\ Len(callStack) = 2
  /\ TopFrame.before = callStack[1].entered
  /\ TopFrame.before.transaction # closures[TopFrame.closure].origin.transaction

\* every State some invocation, closure or the Context still refers to, other
\* than the State the innermost invocation entered
OtherStates ==
  {callStack[i].entered : i \in 1..(Len(callStack) - 1)}
    \cup {callStack[i].before : i \in 1..Len(callStack)}
    \cup {closures[c].state : c \in 1..Len(closures)}
    \cup {closures[c].origin : c \in 1..Len(closures)}
    \cup {context.stack[i] : i \in 1..(Len(context.stack) - 1)}
    \cup {context.prev[i] : i \in 1..Len(context.prev)}

\* C4: a transactionProxy wrapper's handler starts under a State carrying the
\* transaction the factory has just made, which no other State carries: not
\* the enclosing one, and none built by an earlier invocation.
C4_OriginStartsNewTransaction ==
  (JustApplied /\ TopFrame.kind = "transaction") =>
    /\ context.state = TopFrame.entered
    /\ context.state.transaction = created
    /\ \A other \in OtherStates : other.transaction # context.state.transaction

C4_Witness ==
  /\ JustApplied
  /\ TopFrame.kind = "transaction"
  /\ TopFrame.before # None
  /\ Len(callStack) > 1

\* C5 (as claimed): a segmentProxy wrapper invoked under a State with
\* transaction T and segment S starts its handler under a new State
\* {T, S, handler}, and when it returns normally the State that was current
\* before the invocation is current again.
C5_JoinRestoresPrior ==
  [][/\ \A handler \in JoinHandlers, call \in Calls :
          (WrapSegmentInvocation(handler, call.this, call.arguments)
             /\ context.state # None)
            => /\ context'.state.transaction = context.state.transaction
               /\ context'.state.segment = context.state.segment
               /\ context'.state.handler = handler
     /\ \A value \in Values :
          (ReturnSegment(value) /\ TopFrame.entered # None)
            => context'.state = TopFrame.before]_vars

\* C6: a segmentProxy wrapper invoked while no State is current applies its
\* handler, once, to the receiver and arguments it was called with and
\* returns what the handler returns; neither step makes a transaction or a
\* State, enters or exits, or changes the Context, which stays empty.
C6_JoinPassesThrough ==
  [][/\ \A handler \in JoinHandlers, call \in Calls :
          (WrapSegmentInvocation(handler, call.this, call.arguments)
             /\ context.state = None)
            => /\ context' = context
               /\ created' = created
               /\ constructed' = constructed
               /\ Len(callStack') = Len(callStack) + 1
               /\ callStack'[Len(callStack')].handler = handler
               /\ callStack'[Len(callStack')].entered = None
               /\ io' = [this |-> call.this, arguments |-> call.arguments]
     /\ \A value \in Values :
          (ReturnSegment(value) /\ TopFrame.before = None)
            => /\ context' = context
               /\ created' = created
               /\ constructed' = constructed
               /\ io' = [given |-> value]]_vars

C6_Witness ==
  /\ JustApplied
  /\ TopFrame.kind = "segment"
  /\ TopFrame.before = None
  /\ context.state = None
  /\ created = 0

\* C7: callbackProxy called while no State is current gives back the handler
\* itself and makes no closure; calling the handler, under whatever State,
\* and its return enter and exit nothing and leave the Context as it was.
C7_DeferredPassesThrough ==
  [][/\ \A handler \in DeferredHandlers :
          (CallbackProxy(handler) /\ context.state = None)
            => /\ io' = [given |-> handler]
               /\ closures' = closures
               /\ context' = context
     /\ \A handler \in DeferredHandlers, call \in Calls :
          CallHandler(handler, call.this, call.arguments)
            => /\ context' = context
               /\ created' = created
               /\ constructed' = constructed
     /\ \A value \in Values :
          ReturnHandler(value) => context' = context]_vars

C7_Witness ==
  /\ io \in {[given |-> handler] : handler \in DeferredHandlers}
  /\ context.state = None
  /\ closures = <<>>
  /\ created > 0

\* C8 (as claimed): the handler of a segmentProxy wrapper that the handler of
\* a transactionProxy wrapper invokes starts under a State with that outer
\* invocation's transaction and that transaction's root segment.
C8_NestedJoinSeesOuterTransaction ==
  (/\ JustApplied
   /\ Len(callStack) > 1
   /\ TopFrame.kind = "segment"
   /\ callStack[Len(callStack) - 1].kind = "transaction") =>
    LET outer == callStack[Len(callStack) - 1].entered
    IN /\ context.state.transaction = outer.transaction
       /\ context.state.segment = Root(outer.transaction)

\* C9 (as claimed): the State a returning wrapper invocation passes to exit
\* is the State that same invocation passed to enter.
C9_ExitsWhatItEntered ==
  [][/\ \A value \in Values :
          ReturnTransaction(value) => TopFrame.state = TopFrame.entered
     /\ \A value \in Values :
          (ReturnSegment(value) /\ TopFrame.entered # None)
            => TopFrame.state = TopFrame.entered
     /\ \A value \in Values :
          ReturnCallback(value) => CallbackExitArg(TopFrame) = TopFrame.entered]_vars

\* C10 (as claimed): a State is current exactly while some wrapper invocation
\* that entered one is in progress.
C10_CurrentIffWrappedCallActive ==
  (context.state # None) <=> (EnteredFrames # {})

\* C11: `new Tracer` without an agent or without a context gives its caller an
\* error and no Tracer; with both it gives a Tracer holding them, and in
\* either case it makes no transaction and no State and leaves the Context,
\* the closures and the call stack as they were.
C11_ConstructChecksArguments ==
  [][\A agent \in Agents, ctx \in SharedContexts :
       Construct(agent, ctx) =>
         /\ IF agent = Missing \/ ctx = Missing
              THEN /\ tracer' = tracer
                   /\ io'.given \notin {"Tracer"} \cup Values
                   /\ io'.given \in {"Must be initialized with an agent.",
                                     "Must include shared context."}
              ELSE /\ tracer' # NoTracer
                   /\ tracer'.agent = agent
                   /\ tracer'.context = ctx
                   /\ io' = [given |-> "Tracer"]
         /\ created' = created
         /\ constructed' = constructed
         /\ context' = context]_vars

C11_Witness ==
  /\ tracer = NoTracer
  /\ io = [given |-> "Must include shared context."]
  /\ created = 0
  /\ constructed = 0
  /\ context.state = None

\* the three kinds of wrapper invocation
WrapperKinds == {"transaction", "segment", "callback"}

\* C12: when the handler a wrapper applied throws, the wrapper's invocation
\* ends and what its caller gets is that very error: no other error, no value.
C12_ErrorReachesCaller ==
  [][\A error \in Errors :
       (HandlerThrows(error) /\ TopFrame.kind \in WrapperKinds)
         => /\ io' = [given |-> error]
            /\ Len(callStack') = Len(callStack) - 1
            /\ \A i \in 1..Len(callStack') : callStack'[i] = callStack[i]]_vars

C12_Witness ==
  /\ io \in {[given |-> error] : error \in Errors}
  /\ callStack = <<>>
  /\ created = 1
  /\ constructed = 1
  /\ context.state # None
  /\ closures = <<>>

\* the innermost invocation after a step
TopFrameAfter == callStack'[Len(callStack')]

\* the step began one invocation of handler, applied to call's receiver and
\* arguments, on top of the invocations in progress
AppliesOnce(handler, call) ==
  /\ Len(callStack') = Len(callStack) + 1
  /\ \A i \in 1..Len(callStack) : callStack'[i] = callStack[i]
  /\ TopFrameAfter.handler = handler
  /\ io' = [this |-> call.this, arguments |-> call.arguments]

\* the step ended the innermost invocation and gave value to its caller
GivesBack(value) ==
  /\ Len(callStack') = Len(callStack) - 1
  /\ \A i \in 1..Len(callStack') : callStack'[i] = callStack[i]
  /\ io' = [given |-> value]

\* C13: an invocation of a wrapper of any of the three strategies applies
\* the original handler, once, to the receiver and arguments the wrapper was
\* called with, and when the handler returns a value the wrapper returns that
\* value to its caller.
C13_ForwardsCallAndResult ==
  [][/\ \A handler \in OriginHandlers, call \in Calls :
          WrapTransactionInvocation(handler, call.this, call.arguments)
            => AppliesOnce(handler, call)
     /\ \A handler \in JoinHandlers, call \in Calls :
          WrapSegmentInvocation(handler, call.this, call.arguments)
            => AppliesOnce(handler, call)
     /\ \A c \in 1..Len(closures), call \in Calls :
          WrapCallbackInvocation(c, call.this, call.arguments)
            => AppliesOnce(closures[c].handler, call)
     /\ \A value \in Values :
          (ReturnTransaction(value) \/ ReturnSegment(value) \/ ReturnCallback(value))
            => GivesBack(value)]_vars

C13_Witness ==
  /\ JustApplied
  /\ TopFrame.kind = "callback"
  /\ Len(callStack) = 2
  /\ callStack[1].kind = "segment"
  /\ io = [this |-> "r2", arguments |-> "a2"]
  /\ TopFrame.handler = closures[TopFrame.closure].handler

\* C14 (as claimed): with every handler returning normally, the return of a
\* wrapper invocation of any of the three strategies leaves current the State
\* that was current just before that invocation began.
C14_ReturnRestoresBefore ==
  [][\A value \in Values :
       (ReturnTransaction(value) \/ ReturnSegment(value) \/ ReturnCallback(value))
         => context'.state = TopFrame.before]_vars

\* C15: whichever closure of callbackProxy is invoked, whenever and from
\* wherever (from inside another closure's handler too), its handler starts
\* under a State with the transaction and segment that closure captured, and
\* no step changes the transaction or segment any closure holds; an
\* invocation leaves every other closure as it was.
C15_ClosuresIndependent ==
  [][/\ \A c \in 1..Len(closures), call \in Calls :
          WrapCallbackInvocation(c, call.this, call.arguments)
            => /\ context'.state.transaction = closures[c].origin.transaction
               /\ context'.state.segment = closures[c].origin.segment
               /\ \A d \in 1..Len(closures) : d # c => closures'[d] = closures[d]
     /\ \A d \in 1..Len(closures) :
          /\ closures'[d].state.transaction = closures[d].state.transaction
          /\ closures'[d].state.segment = closures[d].state.segment
          /\ closures'[d].origin = closures[d].origin]_vars

C15_Witness ==
  /\ JustApplied
  /\ Len(callStack) = 2
  /\ callStack[1].kind = "callback"
  /\ callStack[2].kind = "callback"
  /\ callStack[1].closure # callStack[2].closure
  /\ closures[1].origin.transaction # closures[2].origin.transaction
  /\ callStack[2].before = callStack[1].entered
  /\ context.state.transaction = closures[callStack[2].closure].origin.transaction
  /\ closures[callStack[1].closure].state = callStack[1].entered

\* C16: the factory makes one transaction in every step that begins a
\* transactionProxy wrapper invocation and none in any other step, so the
\* number of transactions made, 0 at the start, is always the number of such
\* invocations begun.
C16_OnlyOriginCreates ==
  [][IF \E handler \in OriginHandlers, call \in Calls :
          WrapTransactionInvocation(handler, call.this, call.arguments)
       THEN created' = created + 1
       ELSE created' = created]_vars

C16_Witness ==
  /\ JustApplied
  /\ TopFrame.kind = "callback"
  /\ Len(callStack) = 2
  /\ callStack[1].kind = "segment"
  /\ callStack[1].entered # None
  /\ created = 1
  /\ constructed = 3
  /\ io.this = "r1"

\* every reference to a State held anywhere: by the Context, by an invocation
\* in progress or by a closure
Held ==
  {context.state}
    \cup {context.stack[i] : i \in 1..Len(context.stack)}
    \cup {context.prev[i] : i \in 1..Len(context.prev)}
    \cup {callStack[i].entered : i \in 1..Len(callStack)}
    \cup {callStack[i].state : i \in 1..Len(callStack)}
    \cup {callStack[i].before : i \in 1..Len(callStack)}
    \cup {closures[c].state : c \in 1..Len(closures)}
    \cup {closures[c].origin : c \in 1..Len(closures)}

\* C17: the State a segmentProxy wrapper enters under a current State is an
\* object of its own, none of the States referred to elsewhere, and a State
\* object never changes: all references to one object show the same
\* transaction, segment and handler, during the nested call and after it.
C17_JoinBuildsNewState ==
  /\ \A a \in Held : \A b \in Held : a.id = b.id => a = b
  /\ (JustApplied /\ TopFrame.kind = "segment" /\ TopFrame.before # None) =>
       /\ context.state = TopFrame.entered
       /\ TopFrame.entered.id # TopFrame.before.id
       /\ \A other \in OtherStates : other.id # TopFrame.entered.id

C17_Witness ==
  /\ Len(callStack) = 1
  /\ callStack[1].kind = "transaction"
  /\ context.state = callStack[1].entered
  /\ io \in {[given |-> value] : value \in Values}
  /\ created = 1
  /\ constructed = 2
  /\ closures = <<>>

\* C18: the variable `state` of a closure, overwritten by each invocation,
\* always holds a State with the transaction and segment captured at wrap
\* time and, once the closure has been invoked, the original handler; the
\* State a handler starts under, at the first invocation and at every later
\* one, is the one just assigned to that variable.
C18_RepeatedInvocationsKeepCapture ==
  /\ \A c \in 1..Len(closures) :
       /\ closures[c].state.transaction = closures[c].origin.transaction
       /\ closures[c].state.segment = closures[c].origin.segment
       /\ closures[c].state # closures[c].origin
            => closures[c].state.handler = closures[c].handler
  /\ (JustApplied /\ TopFrame.kind = "callback") =>
       /\ context.state = closures[TopFrame.closure].state
       /\ context.state # closures[TopFrame.closure].origin
       /\ context.state.handler = TopFrame.handler

\* the second of two invocations of the one closure, one after the other with
\* nothing current: under the back-reference form the Context shows that the
\* second and the third State were both entered while none was current, and
\* with one transaction only the second can be no one's but the closure's
C18_Witness ==
  /\ JustApplied
  /\ TopFrame.kind = "callback"
  /\ Len(callStack) = 1
  /\ Len(closures) = 1
  /\ created = 1
  /\ constructed = 3
  /\ context.impl = "link"
  /\ context.prev[2] = None
  /\ context.prev[3] = None
  /\ context.state.id = 3

\* the step is a call of one of the three proxy methods
Wraps ==
  \/ \E handler \in OriginHandlers : TransactionProxy(handler)
  \/ \E handler \in JoinHandlers : SegmentProxy(handler)
  \/ \E handler \in DeferredHandlers : CallbackProxy(handler)

\* what a proxy method may give back: a wrapper, or the handler as it is
Wrapped ==
  {[given |-> "wrapTransactionInvocation"], [given |-> "wrapSegmentInvocation"],
   [given |-> "wrapCallbackInvocation"]}
    \cup {[given |-> handler] : handler \in DeferredHandlers}

\* C19: a call of transactionProxy, segmentProxy or callbackProxy gives back a
\* function and does nothing else: the Context is as before (nothing entered
\* or exited), no transaction and no State is made, and no handler invocation
\* begins or ends.
C19_WrappingHasNoEffect ==
  [][Wraps => /\ context' = context
              /\ created' = created
              /\ constructed' = constructed
              /\ callStack' = callStack
              /\ io' \in Wrapped]_vars

C19_Witness ==
  /\ io = [given |-> "wrapCallbackInvocation"]
  /\ Len(callStack) = 2
  /\ Len(closures) = 2
  /\ context.state = TopFrame.entered
  /\ closures[2].origin = context.state
  /\ closures[2].state = context.state

====
